---- MODULE Spec2Model ----
(***************************************************************************)
(* useSimulatedMediaQuery (src/unnamed/part_000): a hook whose effect      *)
(* rewrites the width clauses of the media rules found in the marked       *)
(* region of every style sheet of the page's host, and whose cleanup puts  *)
(* the saved rule texts back.                                              *)
(*                                                                         *)
(* A rule text (cssText) is a sequence of tokens; a token [k, v] stands    *)
(* for one lexical piece of the text: "@media", "{", "}", "and", a clause  *)
(* "(min-width:<v>px)" / "(max-width:<v>px)" / "(orientation:landscape)",  *)
(* a selector, or one of the two marker selectors.  Rule and sheet indexes *)
(* are 1-based here (index i of the model is index i-1 of the code).       *)
(*                                                                         *)
(* LinkControl (src/packages/block-editor/src/components/link-control/     *)
(* index.js): a controlled input for a link value, with its search         *)
(* handlers (direct entry, entity search) and its create flow.  A string   *)
(* of LinkControl is a sequence of pieces of text (themselves strings),    *)
(* so that "starts with", "includes" and concatenation are computed.       *)
(***************************************************************************)
EXTENDS Integers, Sequences, FiniteSets, TLC

\* ------------------------------------------------------------------ bounds
\* Most rules in the whole document (all sheets together) at Init.
MaxRules == 3
\* Most rules in the documents of SpecOverlap and LiveSpec.
MaxRulesOverlap == 2
\* Most suggestions the fetcher answers with.
MaxFetched == 2

\* ------------------------------------------------------------------ tokens
Tok(k, v) == [k |-> k, v |-> v]

AT_MEDIA == Tok("@media", 0)
OPEN == Tok("{", 0)
CLOSE == Tok("}", 0)
AND == Tok("and", 0)
SELECTOR == Tok(".wp-block", 0)
ORIENTATION == Tok("(orientation:landscape)", 0)
START_MARKER == Tok("#start-resizable-editor-section", 0)
END_MARKER == Tok("#end-resizable-editor-section", 0)
MinWidth(v) == Tok("(min-width:px)", v)
MaxWidth(v) == Tok("(max-width:px)", v)

ENABLED_MEDIA_QUERY == MinWidth(0)
DISABLED_MEDIA_QUERY == MinWidth(999999)

\* A token the regular expression /\((min|max)-width:[^\(]*?\)/g matches.
VALID_MEDIA_QUERY_REGEX(tok) == tok.k \in {"(min-width:px)", "(max-width:px)"}

\* text.match( regex ) for a one-token pattern: some token of the text is it.
Contains(text, tok) == \E p \in DOMAIN text : text[p] = tok

\* ------------------------------------------------------------ the CSSOM
\* rule.media: only a media rule has one.
HasMedia(rule) == Len(rule) > 0 /\ rule[1] = AT_MEDIA

\* The position of the first "{" of a rule text (0 when there is none).
FirstOpen(rule) ==
    IF \E p \in DOMAIN rule : rule[p] = OPEN
    THEN CHOOSE p \in DOMAIN rule :
             rule[p] = OPEN /\ \A q \in 1..(p - 1) : rule[q] # OPEN
    ELSE 0

\* rule.media.mediaText: the condition, between "@media" and the first "{".
MediaText(rule) == SubSeq(rule, 2, FirstOpen(rule) - 1)

\* styleSheet.deleteRule( index )
DeleteRule(rules, index) ==
    SubSeq(rules, 1, index - 1) \o SubSeq(rules, index + 1, Len(rules))

\* styleSheet.insertRule( text, index )
InsertRule(rules, text, index) ==
    SubSeq(rules, 1, index - 1) \o <<text>> \o SubSeq(rules, index, Len(rules))

\* css-mediaquery's match( clause, { type: 'screen', width } ) for one width
\* clause: min-width holds from the value up, max-width up to the value.
\* Variant of MatchQuery: the bounds themselves do not match.
MatchQueryStrict(tok, widthValue) ==
    IF tok.k = "(min-width:px)" THEN widthValue > tok.v ELSE widthValue < tok.v

MatchQuery(tok, widthValue) ==
    IF tok.k = "(min-width:px)" THEN widthValue >= tok.v ELSE widthValue <= tok.v

\* ------------------------------------------------------------- the page
\* window.location.hostname
Hostname == "example.org"

SameOriginHref == <<"https://", "example.org", "/style.css">>
CrossOriginHref == <<"https://", "cdn.test", "/style.css">>
\* <<>> is a sheet with no href (an inline <style>: href is null).
NoHref == <<>>
Hrefs == {NoHref, SameOriginHref, CrossOriginHref}

\* The viewport widths the host simulates, and the hook instances.
Widths == {320, 768}
Hooks == {1, 2}

\* The rule texts of the documents.
StyleRule == <<SELECTOR, OPEN, CLOSE>>
StartRule == <<START_MARKER, OPEN, CLOSE>>
EndRule == <<END_MARKER, OPEN, CLOSE>>
Media(condition, body) == <<AT_MEDIA>> \o condition \o <<OPEN>> \o body \o <<CLOSE>>
MediaTexts ==
    { Media(<<MinWidth(768)>>, StyleRule),
      Media(<<ORIENTATION, AND, MaxWidth(500)>>, StyleRule),
      Media(<<MinWidth(500), AND, MaxWidth(768)>>, StyleRule),
      Media(<<ORIENTATION>>, StyleRule),
      Media(<<MinWidth(768)>>, StartRule),
      Media(<<MaxWidth(768)>>, EndRule),
      Media(<<MinWidth(500)>>, StartRule \o EndRule),
      Media(<<MinWidth(768)>>, Media(<<MaxWidth(500)>>, StyleRule)) }

\* The documents: a first sheet of any origin with n1 rules and a second one
\* of the page's host with n2 rules.
Docs(alphabet, n1, n2) ==
    { <<[href |-> h, rules |-> r1], [href |-> SameOriginHref, rules |-> r2]>> :
        h \in Hrefs, r1 \in [1..n1 -> alphabet], r2 \in [1..n2 -> alphabet] }

\* Those holding at most maxRules rules together.
DocsUpTo(alphabet, maxRules) ==
    UNION { Docs(alphabet, n[1], n[2]) :
              n \in { m \in (0..maxRules) \X (0..maxRules) : m[1] + m[2] <= maxRules } }

\* ----------------------------------------------------------------- state
VARIABLES
    sheets,     \* document.styleSheets: a sequence of [href, rules]
    hooks,      \* per hook instance: the host's render and the live effect
    calls,      \* what the last effect or cleanup run did to the CSSOM, in order
    last,       \* the last step: [run, hook], run "effect", "cleanup" or "render"
    pristine,   \* the document as it was loaded (never changes)
    link,       \* one LinkControl: its props, its state, its pending create
    search      \* one call of the search handler: its input and its answer

vars == <<sheets, hooks, calls, last, pristine, link, search>>

\* No LinkControl is rendered, no search is made.
NoControl == [mounted |-> FALSE]
NoSearch == [phase |-> "none"]

\* originalStyles: a sparse array of sparse arrays, as a function on the
\* pairs <<styleSheetIndex, ruleIndex>> that hold a text.
NoStyles == [x \in {} |-> <<>>]

Event(op, s, r, text) == [op |-> op, s |-> s, r |-> r, text |-> text]

IdleHook ==
    [mounted |-> FALSE, width |-> 0, active |-> FALSE, deps |-> 0,
     styleSheets |-> <<>>, originalStyles |-> NoStyles]

\* ------------------------------------------------------ the source's code
\* Variant of getStyleSheetsThatMatchHostname: the hostname is not tested.
getStyleSheetsWithHref(doc) ==
    SelectSeq([s \in 1..Len(doc) |-> s], LAMBDA s : doc[s].href # NoHref)

getStyleSheetsThatMatchHostname(doc) ==
    SelectSeq([s \in 1..Len(doc) |-> s],
              LAMBDA s : doc[s].href # NoHref /\ Contains(doc[s].href, Hostname))

\* Variant of isReplaceableMediaRule: the media text is not matched against
\* the pattern, every media rule is a candidate.
isMediaRule(rule) == HasMedia(rule)

isReplaceableMediaRule(rule) ==
    IF ~HasMedia(rule)
    THEN FALSE
    ELSE \E p \in DOMAIN MediaText(rule) : VALID_MEDIA_QUERY_REGEX(MediaText(rule)[p])

\* acc is the run so far: [sheets, orig, log]; s is the sheet's place in
\* document.styleSheets.
\* Variant of replaceRule: insertRule is called without its index, which
\* inserts at the top of the sheet.
replaceRuleInsertingFirst(acc, s, newRuleText, index) ==
    LET rules == acc.sheets[s].rules
        deleted == DeleteRule(rules, index)
        inserted == InsertRule(deleted, newRuleText, 1)
    IN  [acc EXCEPT
            !.sheets[s].rules = inserted,
            !.log = @ \o <<Event("deleteRule", s, index, rules[index]),
                           Event("insertRule", s, 1, newRuleText)>>]

\* Variant of replaceRule: the new text is inserted at the end of the sheet.
replaceRuleAppending(acc, s, newRuleText, index) ==
    LET rules == acc.sheets[s].rules
        deleted == DeleteRule(rules, index)
        inserted == InsertRule(deleted, newRuleText, Len(deleted) + 1)
    IN  [acc EXCEPT
            !.sheets[s].rules = inserted,
            !.log = @ \o <<Event("deleteRule", s, index, rules[index]),
                           Event("insertRule", s, Len(deleted) + 1, newRuleText)>>]

replaceRule(acc, s, newRuleText, index) ==
    LET rules == acc.sheets[s].rules
        deleted == DeleteRule(rules, index)
        inserted == InsertRule(deleted, newRuleText, index)
    IN  [acc EXCEPT
            !.sheets[s].rules = inserted,
            !.log = @ \o <<Event("deleteRule", s, index, rules[index]),
                           Event("insertRule", s, index, newRuleText)>>]

\* Variant of replaceMediaQueryWithWidthEvaluation: the pattern matches
\* every parenthesised clause.
replaceEveryClauseWithWidthEvaluation(ruleText, widthValue) ==
    [p \in DOMAIN ruleText |->
        IF VALID_MEDIA_QUERY_REGEX(ruleText[p]) \/ ruleText[p] = ORIENTATION
        THEN IF MatchQuery(ruleText[p], widthValue)
             THEN ENABLED_MEDIA_QUERY
             ELSE DISABLED_MEDIA_QUERY
        ELSE ruleText[p]]

replaceMediaQueryWithWidthEvaluation(ruleText, widthValue) ==
    [p \in DOMAIN ruleText |->
        IF VALID_MEDIA_QUERY_REGEX(ruleText[p])
        THEN IF MatchQuery(ruleText[p], widthValue)
             THEN ENABLED_MEDIA_QUERY
             ELSE DISABLED_MEDIA_QUERY
        ELSE ruleText[p]]

\* Variant of InitialRelevantSection: every sheet starts inside the region.
RelevantSectionFromTheTop == TRUE

\* let relevantSection = false;
InitialRelevantSection == FALSE

\* The two marker tests of the loop body, in the code's order.
NextRelevantSection(relevantSection, cssText) ==
    LET afterStart == IF ~relevantSection /\ Contains(cssText, START_MARKER)
                      THEN TRUE ELSE relevantSection
    IN  IF afterStart /\ Contains(cssText, END_MARKER) THEN FALSE ELSE afterStart

\* Variant of SaveOriginal: the text is filed under the sheet's index in
\* document.styleSheets.
SaveOriginalByDocumentIndex(acc, s, styleSheetIndex, ruleIndex, ruleText) ==
    [acc EXCEPT
        !.orig = [x \in DOMAIN acc.orig \cup {<<s, ruleIndex>>} |->
                     IF x = <<s, ruleIndex>> THEN ruleText ELSE acc.orig[x]],
        !.log = Append(@, Event("save", s, ruleIndex, ruleText))]

\* originalStyles[ styleSheetIndex ][ ruleIndex ] = ruleText;
SaveOriginal(acc, s, styleSheetIndex, ruleIndex, ruleText) ==
    [acc EXCEPT
        !.orig = [x \in DOMAIN acc.orig \cup {<<styleSheetIndex, ruleIndex>>} |->
                     IF x = <<styleSheetIndex, ruleIndex>> THEN ruleText ELSE acc.orig[x]],
        !.log = Append(@, Event("save", s, ruleIndex, ruleText))]

\* The for loop over one sheet's rules; reading cssRules[ ruleIndex ] is
\* logged as "rule".
RECURSIVE ScanRules(_, _, _, _, _, _)
ScanRules(acc, s, styleSheetIndex, ruleIndex, relevantSection, width) ==
    IF ruleIndex > Len(acc.sheets[s].rules)
    THEN acc
    ELSE LET rule == acc.sheets[s].rules[ruleIndex]
             read == [acc EXCEPT !.log = Append(@, Event("rule", s, ruleIndex, rule))]
             relevant == NextRelevantSection(relevantSection, rule)
         IN  IF ~relevant \/ ~isReplaceableMediaRule(rule)
             THEN ScanRules(read, s, styleSheetIndex, ruleIndex + 1, relevant, width)
             ELSE ScanRules(
                      replaceRule(
                          SaveOriginal(read, s, styleSheetIndex, ruleIndex, rule),
                          s,
                          replaceMediaQueryWithWidthEvaluation(rule, width),
                          ruleIndex),
                      s, styleSheetIndex, ruleIndex + 1, relevant, width)

\* styleSheets.forEach of the effect; reading a sheet's cssRules is logged.
RECURSIVE ScanSheets(_, _, _, _)
ScanSheets(acc, styleSheets, styleSheetIndex, width) ==
    IF styleSheetIndex > Len(styleSheets)
    THEN acc
    ELSE LET s == styleSheets[styleSheetIndex]
             read == [acc EXCEPT !.log = Append(@, Event("cssRules", s, 0, <<>>))]
         IN  ScanSheets(
                 ScanRules(read, s, styleSheetIndex, 1, InitialRelevantSection, width),
                 styleSheets, styleSheetIndex + 1, width)

\* The effect's body up to its return.
Activate(doc, styleSheets, width) ==
    ScanSheets([sheets |-> doc, orig |-> NoStyles, log |-> <<>>], styleSheets, 1, width)

\* originalStyles.length and rulesCollection.length of the sparse arrays.
StylesLength(orig) ==
    IF DOMAIN orig = {} THEN 0
    ELSE CHOOSE k \in {x[1] : x \in DOMAIN orig} : \A x \in DOMAIN orig : x[1] <= k
CollectionLength(orig, styleSheetIndex) ==
    LET rs == {x[2] : x \in {y \in DOMAIN orig : y[1] = styleSheetIndex}}
    IN  IF rs = {} THEN 0 ELSE CHOOSE r \in rs : \A q \in rs : q <= r

\* The for loop of the cleanup over one saved collection.
RECURSIVE RestoreRules(_, _, _, _, _)
RestoreRules(acc, s, orig, styleSheetIndex, ruleIndex) ==
    IF ruleIndex > CollectionLength(orig, styleSheetIndex)
    THEN acc
    ELSE IF <<styleSheetIndex, ruleIndex>> \in DOMAIN orig
         THEN RestoreRules(
                  replaceRule(acc, s, orig[<<styleSheetIndex, ruleIndex>>], ruleIndex),
                  s, orig, styleSheetIndex, ruleIndex + 1)
         ELSE RestoreRules(acc, s, orig, styleSheetIndex, ruleIndex + 1)

\* originalStyles.forEach of the cleanup.
RECURSIVE RestoreSheets(_, _, _, _)
RestoreSheets(acc, styleSheets, orig, styleSheetIndex) ==
    IF styleSheetIndex > StylesLength(orig)
    THEN acc
    ELSE RestoreSheets(
             RestoreRules(acc, styleSheets[styleSheetIndex], orig, styleSheetIndex, 1),
             styleSheets, orig, styleSheetIndex + 1)

\* Variant of Cleanup: the first saved collection is skipped.
CleanupSkippingFirstSheet(doc, styleSheets, orig) ==
    RestoreSheets([sheets |-> doc, orig |-> orig, log |-> <<>>], styleSheets, orig, 2)

\* The function the effect returns.
Cleanup(doc, styleSheets, orig) ==
    RestoreSheets([sheets |-> doc, orig |-> orig, log |-> <<>>], styleSheets, orig, 1)

\* ---------------------------------------------------------------- actions
\* The host renders the hook for the first time.
Mount(i, w) ==
    /\ ~hooks[i].mounted /\ ~hooks[i].active
    /\ hooks' = [hooks EXCEPT ![i].mounted = TRUE, ![i].width = w]
    /\ calls' = <<>>
    /\ last' = [run |-> "render", hook |-> i]
    /\ UNCHANGED <<sheets, pristine, link, search>>

\* The effect of the last render has run and nothing is pending.
Settled(h) == h.mounted /\ h.active /\ h.deps = h.width

\* The host renders the hook again with another width.
Rerender(i, w) ==
    /\ Settled(hooks[i])
    /\ w # hooks[i].width
    /\ hooks' = [hooks EXCEPT ![i].width = w]
    /\ calls' = <<>>
    /\ last' = [run |-> "render", hook |-> i]
    /\ UNCHANGED <<sheets, pristine, link, search>>

\* The host component is torn down.
Unmount(i) ==
    /\ Settled(hooks[i])
    /\ hooks' = [hooks EXCEPT ![i].mounted = FALSE, ![i].width = 0]
    /\ calls' = <<>>
    /\ last' = [run |-> "render", hook |-> i]
    /\ UNCHANGED <<sheets, pristine, link, search>>

\* Variant of CleanupDue: tearing the component down runs no cleanup.
CleanupDueOnChangeOnly(h) == h.active /\ h.mounted /\ h.deps # h.width

\* useEffect( ..., [ width ] ): the last effect's cleanup is due when the
\* dependency changed or the component is gone.
CleanupDue(h) == h.active /\ (~h.mounted \/ h.deps # h.width)

RunCleanup(i) ==
    /\ CleanupDue(hooks[i])
    /\ LET done == Cleanup(sheets, hooks[i].styleSheets, hooks[i].originalStyles)
       IN  /\ sheets' = done.sheets
           /\ calls' = done.log
    /\ hooks' = [hooks EXCEPT ![i].active = FALSE, ![i].deps = 0,
                              ![i].styleSheets = <<>>,
                              ![i].originalStyles = NoStyles]
    /\ last' = [run |-> "cleanup", hook |-> i]
    /\ UNCHANGED <<pristine, link, search>>

\* Variant of EffectDue: a new width's effect does not wait for the cleanup.
EffectDueBeforeCleanup(h) == h.mounted /\ (~h.active \/ h.deps # h.width)

\* The effect runs once the previous one, if any, is cleaned up.
EffectDue(h) == h.mounted /\ ~h.active

RunEffect(i) ==
    /\ EffectDue(hooks[i])
    /\ LET styleSheets == getStyleSheetsThatMatchHostname(sheets)
           done == Activate(sheets, styleSheets, hooks[i].width)
       IN  /\ sheets' = done.sheets
           /\ calls' = done.log
           /\ hooks' = [hooks EXCEPT ![i].active = TRUE,
                                     ![i].deps = hooks[i].width,
                                     ![i].styleSheets = styleSheets,
                                     ![i].originalStyles = done.orig]
    /\ last' = [run |-> "effect", hook |-> i]
    /\ UNCHANGED <<pristine, link, search>>

\* --------------------------------------------------------- specifications
InitWith(docs) ==
    /\ sheets \in docs
    /\ pristine = sheets
    /\ hooks = [i \in Hooks |-> IdleHook]
    /\ calls = <<>>
    /\ last = [run |-> "render", hook |-> 0]
    /\ link = NoControl
    /\ search = NoSearch

Alphabet(media) == {StyleRule, StartRule, EndRule, media}

\* One hook instance, every document.
Init == InitWith(UNION { DocsUpTo(Alphabet(m), MaxRules) : m \in MediaTexts })

Next ==
    \/ \E w \in Widths : Mount(1, w)
    \/ \E w \in Widths : Rerender(1, w)
    \/ Unmount(1)
    \/ RunCleanup(1)
    \/ RunEffect(1)

Spec == Init /\ [][Next]_vars

\* Two hook instances on the same page (two previews mounted at once).
OverlapMediaTexts ==
    { Media(<<MinWidth(768)>>, StyleRule),
      Media(<<ORIENTATION, AND, MaxWidth(500)>>, StyleRule) }

InitOverlap ==
    InitWith(UNION { DocsUpTo({StartRule, m}, MaxRulesOverlap) : m \in OverlapMediaTexts })

NextOverlap ==
    \E i \in Hooks :
        \/ \E w \in Widths : Mount(i, w)
        \/ \E w \in Widths : Rerender(i, w)
        \/ Unmount(i)
        \/ RunCleanup(i)
        \/ RunEffect(i)

SpecOverlap == InitOverlap /\ [][NextOverlap]_vars

\* The documents of one width rule and the start marker.
InitLive ==
    InitWith(DocsUpTo({StartRule, Media(<<MinWidth(768)>>, StyleRule)}, MaxRulesOverlap))

\* One hook instance, the host always flushing the effects it scheduled.
LiveSpec ==
    /\ InitLive
    /\ [][Next]_vars
    /\ WF_vars(RunCleanup(1))
    /\ WF_vars(RunEffect(1))

\* ------------------------------------------------- LinkControl: strings
CREATE_TYPE == "__CREATE__"

\* The pieces of text that end a protocol ("<name>:").
Protocols == {"https:", "mailto:", "tel:", "hotel:", "mailto+tel:", "1tel:"}
\* Those a URL may start with (a scheme starts with a letter).
Schemes == Protocols \ {"1tel:"}
\* An address the e-mail pattern of prependHTTP matches.
Emails == {"user@example.org"}

\* <<piece, needle>>: the piece of text holds the needle.
Substrings ==
    { <<"mailto:", "mailto">>, <<"mailto+tel:", "mailto">>,
      <<"tel:", "tel">>, <<"hotel:", "tel">>, <<"mailto+tel:", "tel">>, <<"1tel:", "tel">>,
      <<"www.", "www.">>, <<" ", " ">> }

\* The strings the user types or the search is called with.
InputValues ==
    { <<>>,
      <<"hello">>,
      <<"hello", " ", "world">>,
      <<"user@example.org">>,
      <<"1tel:", "555">>,
      <<"#", "top">>,
      <<"#", "tel:", "555">>,
      <<"https:", "//", "example.org">>,
      <<"mailto:", "user@example.org">>,
      <<"tel:", "555">>,
      <<"hotel:", "ritz">>,
      <<"mailto+tel:", "555">>,
      <<"www.", "example.org">>,
      <<"see", " ", "www.", "example.org">> }

\* startsWith( val, '#' )
startsWith(val, prefix) == Len(val) > 0 /\ val[1] = prefix

\* String.prototype.includes
includes(val, needle) == \E p \in DOMAIN val : <<val[p], needle>> \in Substrings

\* getProtocol of @wordpress/url, /^([^\s:]+:)/: the text up to the first
\* colon when it is not empty and holds no white space; '' stands for the
\* undefined the call site turns into ''.
getProtocol(val) ==
    LET colons == { p \in DOMAIN val : val[p] \in Protocols }
    IN  IF colons = {}
        THEN <<>>
        ELSE LET first == CHOOSE p \in colons : \A q \in colons : p <= q
             IN  IF \E q \in 1..first : val[q] = " " THEN <<>> ELSE SubSeq(val, 1, first)

\* isURL of @wordpress/url: new URL( val ) does not throw, which asks for a
\* scheme at the start.
isURL(val) == Len(val) > 0 /\ val[1] \in Schemes

\* String.prototype.trim
RECURSIVE trim(_)
trim(val) ==
    IF val = <<>> THEN val
    ELSE IF val[1] = " " THEN trim(Tail(val))
    ELSE IF val[Len(val)] = " " THEN trim(SubSeq(val, 1, Len(val) - 1))
    ELSE val

\* prependHTTP of @wordpress/url: 'http://' goes before a trimmed value
\* that neither starts as a usable href (a scheme, '#', '?', '.', '/') nor
\* is an e-mail address.
prependHTTP(val) ==
    IF val = <<>> THEN val
    ELSE LET url == trim(val)
             usable == url # <<>> /\ url[1] \in Schemes \cup {"#", "?", ".", "/", "//"}
             email == \/ Len(url) = 1 /\ url[1] \in Emails
                      \/ Len(url) = 2 /\ url[1] = "mailto:" /\ url[2] \in Emails
         IN  IF ~usable /\ ~email THEN <<"http://">> \o url ELSE url

\* cleanForSlug of @wordpress/editor: white space becomes a dash.
cleanForSlug(val) == [p \in DOMAIN val |-> IF val[p] = " " THEN "-" ELSE val[p]]

\* ------------------------------------------ LinkControl: search handlers
\* What fetchSearchSuggestions may answer with.
Entities ==
    { [id |-> <<"1">>, title |-> <<"Hello", " ", "world">>,
       url |-> <<"https:", "//", "example.org", "/?p=1">>, type |-> "post"],
      [id |-> <<"2">>, title |-> <<"About">>,
       url |-> <<"https:", "//", "example.org", "/?p=2">>, type |-> "page"] }
FetchedLists == UNION { [1..n -> Entities] : n \in 0..MaxFetched }

\* Variant of handleDirectEntry: the 'tel' test comes before the 'mailto'
\* test.
handleDirectEntryTelFirst(val) ==
    LET protocol == getProtocol(val)
        type0 == "URL"
        type1 == IF includes(protocol, "tel") THEN "tel" ELSE type0
        type2 == IF includes(protocol, "mailto") THEN "mailto" ELSE type1
        type == IF startsWith(val, "#") THEN "internal" ELSE type2
    IN  << [id |-> cleanForSlug(val),
            title |-> val,
            url |-> IF type = "URL" THEN prependHTTP(val) ELSE val,
            type |-> type] >>

\* The list its promise resolves to.
handleDirectEntry(val) ==
    LET protocol == getProtocol(val)
        type0 == "URL"
        type1 == IF includes(protocol, "mailto") THEN "mailto" ELSE type0
        type2 == IF includes(protocol, "tel") THEN "tel" ELSE type1
        type == IF startsWith(val, "#") THEN "internal" ELSE type2
    IN  << [id |-> cleanForSlug(val),
            title |-> val,
            url |-> IF type = "URL" THEN prependHTTP(val) ELSE val,
            type |-> type] >>

maybeURL(val) ==
    LET isInternal == startsWith(val, "#")
    IN  isInternal \/ isURL(val) \/ (val # <<>> /\ includes(val, "www."))

\* An answer of a search handler: the list its promise resolves to and the
\* calls of fetchSearchSuggestions it made, each [search, options], the
\* options as a set of <<name, value>>.
Answer(results, requests) == [results |-> results, requests |-> requests]

\* Variant of handleEntitySearch: the direct entry is added whenever the
\* value has no space, initial suggestions included.
handleEntitySearchAlwaysDirect(val, args, fetched) ==
    LET options == IF args.isInitialSuggestions THEN {<<"perPage", 3>>} ELSE {}
        results0 == fetched
        results1 == handleDirectEntry(val)
        couldBeURL == ~includes(val, " ")
        results == IF couldBeURL THEN results0 \o results1 ELSE results0
    IN  Answer(
            IF maybeURL(val)
            THEN results
            ELSE results \o << [id |-> cleanForSlug(val), title |-> val,
                                url |-> val, type |-> CREATE_TYPE] >>,
            << [search |-> val, options |-> options] >>)

\* fetched is what the promise of fetchSearchSuggestions resolves to.
handleEntitySearch(val, args, fetched) ==
    LET options == IF args.isInitialSuggestions THEN {<<"perPage", 3>>} ELSE {}
        results0 == fetched
        results1 == handleDirectEntry(val)
        couldBeURL == ~includes(val, " ")
        results == IF couldBeURL /\ ~args.isInitialSuggestions
                   THEN results0 \o results1
                   ELSE results0
    IN  Answer(
            IF maybeURL(val)
            THEN results
            ELSE results \o << [id |-> cleanForSlug(val), title |-> val,
                                url |-> val, type |-> CREATE_TYPE] >>,
            << [search |-> val, options |-> options] >>)

getSearchHandler(val, args, fetched) ==
    IF maybeURL(val)
    THEN Answer(handleDirectEntry(val), <<>>)
    ELSE handleEntitySearch(val, args, fetched)

\* The search input asks for the suggestions of a value.
AskedSearch(val, isInitialSuggestions, fetched) ==
    [phase |-> "asked", val |-> val,
     args |-> [isInitialSuggestions |-> isInitialSuggestions],
     fetched |-> fetched]

\* fetchSuggestions={ getSearchHandler }: the handler's promise resolves;
\* the direct entry of the value is kept next to the answer.
ResolveSearch ==
    /\ search.phase = "asked"
    /\ search' = [phase |-> "resolved", val |-> search.val, args |-> search.args,
                  fetched |-> search.fetched,
                  answer |-> getSearchHandler(search.val, search.args, search.fetched),
                  direct |-> handleDirectEntry(search.val)]
    /\ UNCHANGED <<sheets, hooks, calls, last, pristine, link>>

\* The style sheets play no part in LinkControl.
NoPage ==
    /\ sheets = <<>>
    /\ pristine = <<>>
    /\ hooks = [i \in Hooks |-> IdleHook]
    /\ calls = <<>>
    /\ last = [run |-> "render", hook |-> 0]

InitSearch ==
    /\ NoPage
    /\ link = NoControl
    /\ search \in { AskedSearch(val, initial, fetched) :
                      val \in InputValues, initial \in BOOLEAN, fetched \in FetchedLists }

NextSearch == ResolveSearch

\* Every call of the search handlers.
SpecSearch == InitSearch /\ [][NextSearch]_vars

\* ---------------------------------------------- LinkControl: the control
\* The value prop: <<>> is undefined, <<v>> a link value.
EmptyLink == [id |-> <<>>, title |-> <<>>, url |-> <<>>, type |-> "URL"]
SomeLink ==
    [id |-> <<"example">>, title |-> <<"Example">>,
     url |-> <<"https:", "//", "example.org">>, type |-> "URL"]
Values == { <<>>, <<EmptyLink>>, <<SomeLink>> }

\* What the user types in the search input.
Typed == { <<"hello">>, <<"hello", " ", "world">>, <<"www.", "example.org">> }

\* What createSuggestion's promise settles with: a new suggestion, nothing,
\* or an error with or without a msg.
Outcomes == {"value", "nothing", "rejected with msg", "rejected"}
Created(title) ==
    [id |-> <<"3">>, title |-> title,
     url |-> <<"https:", "//", "example.org", "/?p=3">>, type |-> "page"]
ErrorMsg == <<"Creation is not allowed.">>
DefaultErrorMsg == <<"An unknown error occurred during creation. Please try again.">>

\* What the parent does in its onChange: nothing, render the control with
\* the new value, or remove the control.
Reactions == {"ignores", "sets", "unmounts"}

\* The component after its first render with a value prop; render tells
\* whose closure the handlers on screen are: the first render's or a later
\* one's.  pending is the create in flight: its title, the render whose
\* handler started it (whose cancelableOnCreate and
\* cancelableCreateSuggestion hold its two cancelables), and the
\* hasCanceled_ of the two.  changes is the list of onChange calls of the
\* last handler, late the setters and onChange calls made after the unmount,
\* done the create handler that has just returned.
InitialControl(value) ==
    [mounted |-> TRUE,
     value |-> value,
     inputValue |-> IF value # <<>> /\ value[1].url # <<>> THEN value[1].url ELSE <<>>,
     isEditingLink |-> value = <<>> \/ value[1].url = <<>>,
     isResolvingLink |-> FALSE,
     errorMessage |-> <<>>,
     render |-> "first",
     pending |-> <<>>,
     changes |-> <<>>,
     late |-> <<>>,
     done |-> <<>>]

\* The state setters: React drops (and warns about) a call made after the
\* unmount.
setInputValue(l, v) ==
    IF l.mounted THEN [l EXCEPT !.inputValue = v]
    ELSE [l EXCEPT !.late = Append(@, "setInputValue")]
setIsEditingLink(l, v) ==
    IF l.mounted THEN [l EXCEPT !.isEditingLink = v]
    ELSE [l EXCEPT !.late = Append(@, "setIsEditingLink")]
setIsResolvingLink(l, v) ==
    IF l.mounted THEN [l EXCEPT !.isResolvingLink = v]
    ELSE [l EXCEPT !.late = Append(@, "setIsResolvingLink")]
setErrorMessage(l, v) ==
    IF l.mounted THEN [l EXCEPT !.errorMessage = v]
    ELSE [l EXCEPT !.late = Append(@, "setErrorMessage")]

\* The cleanup of the effect with no dependencies: it is the first render's
\* closure, so the cancelables it finds are those a handler of the first
\* render assigned.
componentDidUnmount(l) ==
    [l EXCEPT
        !.mounted = FALSE,
        !.pending = IF l.pending # <<>> /\ l.pending[1].render = "first"
                    THEN << [l.pending[1] EXCEPT !.onCreateCanceled = TRUE,
                                                 !.createSuggestionCanceled = TRUE] >>
                    ELSE @]

\* { ..._value, ...suggestion }
Spread(value, suggestion) ==
    LET v == IF value = <<>> THEN [f \in {} |-> <<>>] ELSE value[1]
    IN  [f \in DOMAIN v \cup DOMAIN suggestion |->
            IF f \in DOMAIN suggestion THEN suggestion[f] ELSE v[f]]

\* The onChange prop, called with a value.
onChange(l, v) ==
    [l EXCEPT !.changes = Append(@, v),
              !.late = IF l.mounted THEN @ ELSE Append(@, "onChange")]

\* What the parent's onChange does to the control. React applies it when
\* the event handler that called onChange returns (updates are batched
\* there), and at once when onChange is called after an await.
ParentReacts(l, v, reaction) ==
    IF ~l.mounted \/ reaction = "ignores" THEN l
    ELSE IF reaction = "sets" THEN [l EXCEPT !.value = <<v>>]
    ELSE componentDidUnmount(l)

stopEditing(l) == setIsEditingLink(l, FALSE)

\* The three parts of the render.
ShowsSpinner(l) == l.isResolvingLink
\* Variant of ShowsSearchInput: isResolvingLink is not tested.
ShowsSearchInputWhileResolving(l) == l.isEditingLink \/ l.value = <<>>
ShowsSearchInput(l) == (l.isEditingLink \/ l.value = <<>>) /\ ~l.isResolvingLink
ShowsCurrentLink(l) == l.value # <<>> /\ ~l.isEditingLink /\ ~l.isResolvingLink

\* A handler has returned: a change of state or of the value prop made the
\* component render again, and the logs of the last handler are dropped by
\* the next one.
Fresh(l) == [l EXCEPT !.changes = <<>>, !.done = <<>>]
Rendered(before, after) ==
    IF \E f \in {"value", "inputValue", "isEditingLink", "isResolvingLink", "errorMessage"} :
           after[f] # before[f]
    THEN [after EXCEPT !.render = "later"]
    ELSE after

\* The suggestions the search input may show for the input value, each with
\* the list it is part of and the kind of the request (initial suggestions
\* are asked for an empty input only).
ShownOf(answer, isInitialSuggestions) ==
    { [suggestion |-> answer.results[p], suggestions |-> answer.results,
       isInitialSuggestions |-> isInitialSuggestions] : p \in DOMAIN answer.results }
Shown(l) ==
    UNION { ShownOf(getSearchHandler(l.inputValue, [isInitialSuggestions |-> i], fetched), i) :
              i \in (IF l.inputValue = <<>> THEN BOOLEAN ELSE {FALSE}),
              fetched \in FetchedLists }

\* -------------------------------------------- LinkControl: the handlers
LinkStep(after) ==
    /\ link' = Rendered(link, after)
    /\ UNCHANGED <<sheets, hooks, calls, last, pristine, search>>

\* onInputChange: the user types in the search input.
OnInputChange(val) ==
    /\ link.mounted /\ ShowsSearchInput(link)
    /\ val # link.inputValue
    /\ LinkStep(setInputValue(setErrorMessage(Fresh(link), <<>>), val))

\* resetInput: the user clears the search input.
ResetInput ==
    /\ link.mounted /\ ShowsSearchInput(link)
    /\ link.inputValue # <<>>
    /\ LinkStep(setInputValue(setErrorMessage(Fresh(link), <<>>), <<>>))

\* The Edit button of the current link.
ClickEdit ==
    /\ link.mounted /\ ShowsCurrentLink(link)
    /\ LinkStep(setIsEditingLink(Fresh(link), TRUE))

\* The parent renders the control with another value.
ReceiveValue(value) ==
    /\ link.mounted
    /\ value # link.value
    /\ LinkStep([Fresh(link) EXCEPT !.value = value])

handleSelectSuggestion(l, suggestion) ==
    onChange(setIsEditingLink(l, FALSE), Spread(l.value, suggestion))

\* onSelect of the search input with a suggestion that is not the CREATE
\* one.
SelectSuggestion(shown, reaction) ==
    /\ link.mounted /\ ShowsSearchInput(link)
    /\ shown.suggestion.type # CREATE_TYPE
    /\ LinkStep(ParentReacts(
                    stopEditing(handleSelectSuggestion(Fresh(link), shown.suggestion)),
                    Spread(link.value, shown.suggestion), reaction))

\* onClick of a LinkControlSearchItem.
ClickSuggestion(shown, reaction) ==
    /\ link.mounted /\ ShowsSearchInput(link)
    /\ shown.suggestion.type # CREATE_TYPE
    /\ LinkStep(ParentReacts(
                    onChange(stopEditing(Fresh(link)), Spread(link.value, shown.suggestion)),
                    Spread(link.value, shown.suggestion), reaction))

\* handleOnCreate up to its await, called by a create handler of the
\* render on screen, and the handler's own makeCancelable.
StartCreate(l, title, handler) ==
    [setErrorMessage(setIsResolvingLink(l, TRUE), <<>>) EXCEPT
        !.pending = << [title |-> title, handler |-> handler, render |-> l.render,
                        createSuggestionCanceled |-> FALSE,
                        onCreateCanceled |-> FALSE] >>]

\* onSelect of the search input with the CREATE suggestion, up to its await.
SelectCreate(shown) ==
    /\ link.mounted /\ ShowsSearchInput(link)
    /\ shown.suggestion.type = CREATE_TYPE
    /\ LinkStep(StartCreate(Fresh(link), link.inputValue, "onSelect"))

\* shouldShowCreateEntity of renderSearchResults (createSuggestion is set).
shouldShowCreateEntity(shown) ==
    LET isSingleDirectEntryResult ==
            /\ Len(shown.suggestions) = 1
            /\ shown.suggestions[1].type \in {"URL", "mailto", "tel", "internal"}
    IN  ~isSingleDirectEntryResult /\ ~shown.isInitialSuggestions

\* onClick of LinkControlSearchCreate, up to its await.
ClickCreate(shown) ==
    /\ link.mounted /\ ShowsSearchInput(link)
    /\ shown.suggestion.type = CREATE_TYPE
    /\ shouldShowCreateEntity(shown)
    /\ LinkStep(StartCreate(Fresh(link), shown.suggestion.title, "onClick"))

\* handleOnCreate from its await on, once createSuggestion's promise has
\* settled.
handleOnCreate(l, outcome, reaction) ==
    LET c == l.pending[1]
    IN  IF c.createSuggestionCanceled
        THEN l
        ELSE LET caught ==
                     IF outcome = "rejected with msg" THEN setErrorMessage(l, ErrorMsg)
                     ELSE IF outcome = "rejected" THEN setErrorMessage(l, DefaultErrorMsg)
                     ELSE l
                 resolved == setIsResolvingLink(caught, FALSE)
             IN  IF outcome = "value"
                 THEN ParentReacts(onChange(resolved, Created(c.title)),
                                   Created(c.title), reaction)
                 ELSE setIsEditingLink(resolved, TRUE)

\* createSuggestion's promise settles: handleOnCreate runs to its end, then
\* the create handler that awaits it, either one: it returns if its
\* cancelable was cancelled and calls stopEditing if not.
SettleCreate(outcome, reaction) ==
    /\ link.pending # <<>>
    /\ reaction # "ignores" => (outcome = "value" /\ link.mounted)
    /\ LET c == link.pending[1]
           created == handleOnCreate(Fresh(link), outcome, reaction)
           handled == IF created.pending[1].onCreateCanceled
                      THEN created
                      ELSE stopEditing(created)
       IN  LinkStep([handled EXCEPT
                        !.pending = <<>>,
                        !.done = << [handler |-> c.handler, outcome |-> outcome,
                                     title |-> c.title,
                                     canceled |-> created.pending[1].onCreateCanceled,
                                     mounted |-> link.mounted] >>])

\* The parent removes the control.
UnmountControl ==
    /\ link.mounted
    /\ LinkStep(componentDidUnmount(Fresh(link)))

InitLink ==
    /\ NoPage
    /\ search = NoSearch
    /\ link \in { InitialControl(value) : value \in Values }

NextLink ==
    \/ \E val \in Typed : OnInputChange(val)
    \/ ResetInput
    \/ ClickEdit
    \/ \E value \in Values : ReceiveValue(value)
    \/ \E shown \in Shown(link), reaction \in Reactions : SelectSuggestion(shown, reaction)
    \/ \E shown \in Shown(link), reaction \in Reactions : ClickSuggestion(shown, reaction)
    \/ \E shown \in Shown(link) : SelectCreate(shown)
    \/ \E shown \in Shown(link) : ClickCreate(shown)
    \/ \E outcome \in Outcomes, reaction \in Reactions : SettleCreate(outcome, reaction)
    \/ UnmountControl

\* One LinkControl, from its first render on.
SpecLink == InitLink /\ [][NextLink]_vars

\* ------------------------------------------------------------------ claims
\* The rewrites of the last run: the places of its deleteRule calls, each
\* followed by the insertRule of the same replaceRule.
Replaced == { p \in DOMAIN calls : calls[p].op = "deleteRule" }
OldText(p) == calls[p].text
NewText(p) == calls[p + 1].text
EffectRan == last.run = "effect"
CleanupRan == last.run = "cleanup"

\* C1: round trip. With one hook instance (so no other mutation between an
\* activation and its cleanup), whenever no effect is live every rule of
\* every sheet has, at its index, the text it had before activation.
RoundTrip == ~hooks[1].active => sheets = pristine

\* A cleanup has just put back a text that differs from the rewritten one.
RoundTripWitness ==
    /\ CleanupRan
    /\ \E p \in Replaced : OldText(p) # NewText(p)
    /\ sheets = pristine

\* C2: width evaluation. In every rule an activation for width w rewrites,
\* each clause (min-width:V) becomes the enabled form exactly when w >= V, each
\* clause (max-width:V) exactly when w <= V, and the disabled form otherwise,
\* whatever the rule's other clauses are.
WidthEvaluation ==
    EffectRan =>
        \A p \in Replaced : \A q \in DOMAIN OldText(p) :
            LET w == hooks[last.hook].deps
                clause == OldText(p)[q]
            IN  /\ clause.k = "(min-width:px)" =>
                     NewText(p)[q] = IF w >= clause.v THEN MinWidth(0) ELSE MinWidth(999999)
                /\ clause.k = "(max-width:px)" =>
                     NewText(p)[q] = IF w <= clause.v THEN MinWidth(0) ELSE MinWidth(999999)

\* An activation for width 320 rewrote one rule with the two clauses
\* (min-width:500px) and (max-width:768px): one disabled, the other enabled.
WidthEvaluationWitness ==
    /\ EffectRan
    /\ hooks[last.hook].deps = 320
    /\ \E p \in Replaced :
           /\ Contains(OldText(p), MinWidth(500))
           /\ Contains(OldText(p), MaxWidth(768))
           /\ Contains(NewText(p), MinWidth(0))
           /\ Contains(NewText(p), MinWidth(999999))

\* Rule r of a sheet lies outside the marked region: no rule up to it holds
\* the start marker, or a rule up to it holds the end marker and no later
\* rule up to it holds the start marker.
Outside(rules, r) ==
    \/ \A j \in 1..r : ~Contains(rules[j], START_MARKER)
    \/ \E j \in 1..r :
           /\ Contains(rules[j], END_MARKER)
           /\ \A k \in (j + 1)..r : ~Contains(rules[k], START_MARKER)

\* C3: region scoping. An activation never saves, deletes or inserts at the
\* index of a rule outside the marked region, and with one hook instance such
\* a rule keeps its text.
RegionScoping ==
    /\ EffectRan =>
           \A p \in DOMAIN calls :
               calls[p].op \in {"save", "deleteRule", "insertRule"} =>
                   ~Outside(sheets[calls[p].s].rules, calls[p].r)
    /\ \A s \in DOMAIN sheets : \A r \in DOMAIN sheets[s].rules :
           Outside(pristine[s].rules, r) => sheets[s].rules[r] = pristine[s].rules[r]

\* An activation rewrote a rule of a sheet and left a width-based media rule
\* before the start marker alone.
RegionScopingWitness ==
    /\ EffectRan
    /\ \E p \in Replaced :
           \E r \in DOMAIN sheets[calls[p].s].rules :
               /\ Outside(sheets[calls[p].s].rules, r)
               /\ isReplaceableMediaRule(sheets[calls[p].s].rules[r])

\* The text an effect saved for the rule at <<styleSheetIndex, ruleIndex>>
\* is the text the loaded document has there.
SavedIsPristine(h, x) == h.originalStyles[x] = pristine[h.styleSheets[x[1]]].rules[x[2]]

\* C4: restore before reactivate. With one hook instance, over any sequence
\* of width changes, when an activation is about to run every rule has been
\* restored, and every live activation has saved the texts of the loaded
\* document, never a text an earlier rewrite produced.
RestoreBeforeReactivate ==
    /\ (hooks[1].mounted /\ ~hooks[1].active) => sheets = pristine
    /\ hooks[1].active =>
           \A x \in DOMAIN hooks[1].originalStyles : SavedIsPristine(hooks[1], x)

\* The width changed and the previous width's cleanup has just restored a
\* rule; the activation for the new width is next.
RestoreBeforeReactivateWitness ==
    /\ CleanupRan
    /\ hooks[1].mounted
    /\ hooks[1].width \in Widths
    /\ \E p \in Replaced : OldText(p) # NewText(p)

\* C5: full restoration under overlapping activations. Once no effect of any
\* hook instance is live, every rule of every sheet has the text it had when
\* the document was loaded.
FullRestorationAfterOverlap ==
    (\A i \in Hooks : ~hooks[i].active) => sheets = pristine

\* C6: non-width clauses are preserved. A rewrite changes width clauses
\* only: the new text has the old text's length and, at every place where the
\* old text holds anything but a width clause, the same token.
NonWidthPreserved ==
    EffectRan =>
        \A p \in Replaced :
            /\ Len(NewText(p)) = Len(OldText(p))
            /\ \A q \in DOMAIN OldText(p) :
                   OldText(p)[q].k \notin {"(min-width:px)", "(max-width:px)"} =>
                       NewText(p)[q] = OldText(p)[q]

\* An activation rewrote the width clause of a rule whose condition also
\* holds (orientation:landscape).
NonWidthPreservedWitness ==
    /\ EffectRan
    /\ \E p \in Replaced :
           /\ NewText(p) # OldText(p)
           /\ \E q \in DOMAIN OldText(p) :
                  OldText(p)[q] = ORIENTATION /\ NewText(p)[q] = ORIENTATION

\* A sheet with no href, or whose href does not hold the page's hostname.
NotOfHost(sheet) ==
    sheet.href = <<>> \/ \A q \in DOMAIN sheet.href : sheet.href[q] # "example.org"

\* C7: host filtering. A sheet that is not of the page's host keeps its
\* rules, and no run (effect or cleanup) reads its rule list, saves, deletes
\* or inserts in it.
HostFiltering ==
    \A s \in DOMAIN sheets :
        NotOfHost(pristine[s]) =>
            /\ sheets[s] = pristine[s]
            /\ \A p \in DOMAIN calls : calls[p].s # s

\* An activation rewrote a rule while a sheet of another host holds a width
\* rule inside a marked region.
HostFilteringWitness ==
    /\ EffectRan
    /\ Replaced # {}
    /\ \E s \in DOMAIN sheets :
           /\ sheets[s].href # <<>>
           /\ NotOfHost(sheets[s])
           /\ \E r \in DOMAIN sheets[s].rules :
                  /\ ~Outside(sheets[s].rules, r)
                  /\ isReplaceableMediaRule(sheets[s].rules[r])

\* C8: guaranteed release. With one hook instance whose host flushes its
\* effects, whenever an effect is live and the component is torn down or its
\* width changed, the cleanup eventually has run and every rule is restored.
GuaranteedRelease ==
    (hooks[1].active /\ (~hooks[1].mounted \/ hooks[1].deps # hooks[1].width))
        ~> (~hooks[1].active /\ sheets = pristine)

\* The component is gone and its cleanup has just restored a rule.
GuaranteedReleaseWitness ==
    /\ CleanupRan
    /\ ~hooks[1].mounted
    /\ \E p \in Replaced : OldText(p) # NewText(p)

\* The places of the last run's saves.
Saves == { p \in DOMAIN calls : calls[p].op = "save" }
SameRule(p, q) == calls[p].s = calls[q].s /\ calls[p].r = calls[q].r

\* C9: saved-original invariant. In an activation every save is followed by
\* the replacement of the rule at that place, whose text is the saved one;
\* nothing is replaced without a save, no place is saved twice, and the map
\* holds exactly the saved texts, under the sheet's index among the sheets of
\* the host. With one hook instance the entries are the rules whose text
\* differs from the loaded document's.
SavedOriginalInvariant ==
    /\ EffectRan =>
           LET h == hooks[last.hook]
               KeyOf(p) == { <<k, calls[p].r>> : k \in { j \in DOMAIN h.styleSheets :
                                                          h.styleSheets[j] = calls[p].s } }
           IN  /\ \A p \in Saves :
                      /\ p + 2 <= Len(calls)
                      /\ calls[p + 1].op = "deleteRule" /\ SameRule(p, p + 1)
                      /\ calls[p + 1].text = calls[p].text
                      /\ calls[p + 2].op = "insertRule" /\ SameRule(p, p + 2)
               /\ \A p \in Replaced : p > 1 /\ calls[p - 1].op = "save"
               /\ \A p, q \in Saves : p # q => ~SameRule(p, q)
               /\ DOMAIN h.originalStyles = UNION { KeyOf(p) : p \in Saves }
               /\ \A p \in Saves : \A x \in KeyOf(p) : h.originalStyles[x] = calls[p].text
    /\ hooks[1].active =>
           LET sheetOf == hooks[1].styleSheets
               Changed(k) == { r \in DOMAIN sheets[sheetOf[k]].rules :
                                  sheets[sheetOf[k]].rules[r] # pristine[sheetOf[k]].rules[r] }
           IN  DOMAIN hooks[1].originalStyles =
                   UNION { { <<k, r>> : r \in Changed(k) } : k \in DOMAIN sheetOf }

\* An activation saved and rewrote a rule of the second sheet of the
\* document, which is the first of the host's sheets.
SavedOriginalWitness ==
    /\ EffectRan
    /\ NotOfHost(sheets[1])
    /\ \E p \in Saves : calls[p].s = 2 /\ <<1, calls[p].r>> \in DOMAIN hooks[1].originalStyles

\* C10: deactivate idempotence. For every live effect, running its cleanup
\* twice in a row leaves the sheets as running it once does, and the cleanup
\* of an activation that rewrote nothing calls neither deleteRule nor
\* insertRule.
DeactivateIdempotent ==
    \A i \in Hooks :
        hooks[i].active =>
            LET h == hooks[i]
                once == Cleanup(sheets, h.styleSheets, h.originalStyles)
                twice == Cleanup(once.sheets, h.styleSheets, h.originalStyles)
            IN  /\ twice.sheets = once.sheets
                /\ DOMAIN h.originalStyles = {} =>
                       \A p \in DOMAIN once.log :
                           once.log[p].op \notin {"deleteRule", "insertRule"}

\* A live effect whose cleanup changes a rule that is not the first of its
\* sheet.
DeactivateIdempotentWitness ==
    /\ hooks[1].active
    /\ \E x \in DOMAIN hooks[1].originalStyles : x[2] > 1
    /\ Cleanup(sheets, hooks[1].styleSheets, hooks[1].originalStyles).sheets # sheets

\* The body of a rule text: everything from its first "{" on.
BodyOf(text) == SubSeq(text, FirstOpen(text), Len(text))

\* C13: substitution confined to the condition. A rewrite leaves the body of
\* the rule, nested rules and anything in it that looks like a width clause
\* included, as it was.
BodyUntouched ==
    EffectRan => \A p \in Replaced : BodyOf(NewText(p)) = BodyOf(OldText(p))

\* The places of the last run's reads of cssRules[ ruleIndex ].
Visits == { p \in DOMAIN calls : calls[p].op = "rule" }

\* A rule that is not a media rule, or whose condition holds no width clause.
NonCandidate(text) ==
    \/ ~HasMedia(text)
    \/ \A q \in 2..(FirstOpen(text) - 1) :
           text[q].k \notin {"(min-width:px)", "(max-width:px)"}

\* C14: non-candidates untouched. A rule inside the marked region that is
\* not a media rule, or whose media text has no width clause, is never
\* deleted or re-inserted by the activation and gets no saved entry; the
\* scan goes on past it to the next rule of the sheet and the effect ends
\* live, as it does when nothing is raised.
NonCandidatesUntouched ==
    EffectRan =>
        \A p \in Visits :
            LET s == calls[p].s
                r == calls[p].r
                h == hooks[last.hook]
            IN  (NonCandidate(calls[p].text) /\ ~Outside(sheets[s].rules, r)) =>
                    /\ \A q \in DOMAIN calls :
                           calls[q].op \in {"save", "deleteRule", "insertRule"} =>
                               ~SameRule(p, q)
                    /\ \A x \in DOMAIN h.originalStyles :
                           ~(h.styleSheets[x[1]] = s /\ x[2] = r)
                    /\ sheets[s].rules[r] = calls[p].text
                    /\ r < Len(sheets[s].rules) =>
                           \E q \in Visits : q > p /\ calls[q].s = s /\ calls[q].r = r + 1
                    /\ h.active

\* An activation read a media rule with no width clause inside the region,
\* left it alone and went on to the next rule of the sheet.
NonCandidatesUntouchedWitness ==
    /\ EffectRan
    /\ \E p \in Visits :
           /\ HasMedia(calls[p].text)
           /\ NonCandidate(calls[p].text)
           /\ ~Outside(sheets[calls[p].s].rules, calls[p].r)
           /\ calls[p].r < Len(sheets[calls[p].s].rules)
           /\ sheets[calls[p].s].rules[calls[p].r] = calls[p].text

\* Two texts of one rule: the same tokens at the same places, width clauses
\* aside.
SameUpToWidth(a, b) ==
    /\ Len(a) = Len(b)
    /\ \A q \in DOMAIN a :
           \/ a[q] = b[q]
           \/ /\ a[q].k \in {"(min-width:px)", "(max-width:px)"}
              /\ b[q].k \in {"(min-width:px)", "(max-width:px)"}

\* C15: index stability. Every replacement of a run deletes at an index and
\* inserts at that same index; after every activation and every cleanup each
\* sheet has the number of rules it was loaded with and, at every index, the
\* rule it was loaded with there; and the scan of an activation reads each
\* rule index of each sheet of the host exactly once.
IndexStability ==
    /\ \A p \in Replaced :
           /\ p < Len(calls)
           /\ calls[p + 1].op = "insertRule"
           /\ SameRule(p, p + 1)
    /\ \A s \in DOMAIN sheets :
           /\ Len(sheets[s].rules) = Len(pristine[s].rules)
           /\ \A r \in DOMAIN sheets[s].rules :
                  SameUpToWidth(sheets[s].rules[r], pristine[s].rules[r])
    /\ EffectRan =>
           LET h == hooks[last.hook]
           IN  /\ \A p \in Visits :
                      /\ \E k \in DOMAIN h.styleSheets : h.styleSheets[k] = calls[p].s
                      /\ calls[p].r \in DOMAIN sheets[calls[p].s].rules
               /\ \A k \in DOMAIN h.styleSheets :
                      \A r \in DOMAIN sheets[h.styleSheets[k]].rules :
                          Cardinality({ p \in Visits : /\ calls[p].s = h.styleSheets[k]
                                                       /\ calls[p].r = r }) = 1

\* An activation rewrote the second of three rules of a sheet and read the
\* third after it.
IndexStabilityWitness ==
    /\ EffectRan
    /\ \E p \in Replaced :
           /\ calls[p].r = 2
           /\ OldText(p) # NewText(p)
           /\ Len(sheets[calls[p].s].rules) = 3
           /\ \E q \in Visits : q > p /\ calls[q].s = calls[p].s /\ calls[q].r = 3

\* A value that starts with '#', is a URL, or holds 'www.'.
URLLike(val) ==
    \/ Len(val) > 0 /\ val[1] = "#"
    \/ isURL(val)
    \/ Contains(val, "www.")

\* C16: entity search composition. For a value that is not URL-like the
\* search answers with the fetched suggestions in their order, then the
\* direct entry of the value exactly when the value has no space and the
\* request is not for initial suggestions, then one CREATE suggestion, the
\* last and the only one, whose title and url are the value; the fetcher is
\* called once, with the value, and for initial suggestions with perPage 3.
EntitySearchComposition ==
    (search.phase = "resolved" /\ ~URLLike(search.val)) =>
        LET val == search.val
            r == search.answer.results
            n == Len(search.fetched)
            withDirect == ~Contains(val, " ") /\ ~search.args.isInitialSuggestions
        IN  /\ Len(r) = n + (IF withDirect THEN 1 ELSE 0) + 1
            /\ SubSeq(r, 1, n) = search.fetched
            /\ withDirect =>
                   /\ r[n + 1] = search.direct[1]
                   /\ r[n + 1].title = val
                   /\ r[n + 1].type \in {"URL", "mailto", "tel", "internal"}
            /\ r[Len(r)].type = CREATE_TYPE
            /\ r[Len(r)].title = val
            /\ r[Len(r)].url = val
            /\ \A p \in 1..(Len(r) - 1) : r[p].type # CREATE_TYPE
            /\ Len(search.answer.requests) = 1
            /\ search.answer.requests[1].search = val
            /\ search.args.isInitialSuggestions =>
                   <<"perPage", 3>> \in search.answer.requests[1].options

\* The search for "hello" answered two fetched suggestions, the direct
\* entry and the CREATE suggestion.
EntitySearchCompositionWitness ==
    /\ search.phase = "resolved"
    /\ search.val = <<"hello">>
    /\ ~search.args.isInitialSuggestions
    /\ Len(search.fetched) = 2
    /\ Len(search.answer.results) = 4
    /\ search.answer.results[4].type = CREATE_TYPE

\* C17: direct entry classification. handleDirectEntry answers one
\* suggestion whose title is the value; its type is 'internal' when the
\* value starts with '#', else 'tel' when the protocol holds 'tel', else
\* 'mailto' when the protocol holds 'mailto', else 'URL'; its url is the
\* value itself for the first three and the (trimmed) value with or without
\* 'http://' before it for 'URL'; and a URL-like value is answered by this
\* handler alone, with no call of the fetcher.
DirectEntryClassification ==
    search.phase = "resolved" =>
        LET val == search.val
            d == search.direct
            protocol == getProtocol(val)
        IN  /\ Len(d) = 1
            /\ d[1].title = val
            /\ d[1].type =
                   IF Len(val) > 0 /\ val[1] = "#" THEN "internal"
                   ELSE IF includes(protocol, "tel") THEN "tel"
                   ELSE IF includes(protocol, "mailto") THEN "mailto"
                   ELSE "URL"
            /\ d[1].type # "URL" => d[1].url = val
            /\ d[1].type = "URL" => d[1].url \in {trim(val), <<"http://">> \o trim(val)}
            /\ URLLike(val) =>
                   /\ search.answer.requests = <<>>
                   /\ search.answer.results = d

\* A value whose protocol holds both 'mailto' and 'tel' was answered as a
\* 'tel' direct entry, with no call of the fetcher.
DirectEntryClassificationWitness ==
    /\ search.phase = "resolved"
    /\ includes(getProtocol(search.val), "mailto")
    /\ includes(getProtocol(search.val), "tel")
    /\ search.direct[1].type = "tel"
    /\ search.direct[1].url = search.val
    /\ search.answer.requests = <<>>

\* C11: cancel on unmount. When the control was unmounted while the
\* createSuggestion call of a create was pending, handleOnCreate and the
\* create handler have called no state setter and no onChange after the
\* unmount, whichever render's handler started the create and however its
\* promise settled.
NoCallAfterUnmount ==
    \A p \in DOMAIN link.done : ~link.done[p].mounted => link.late = <<>>

\* C12: failed create ends in edit mode. When a create handler has returned
\* on a mounted control whose createSuggestion rejected or resolved with
\* nothing, onChange was not called, isResolvingLink is false, the error
\* message is set if it rejected, isEditingLink is true and the search input
\* is shown; when it resolved with a value, onChange was called once, with
\* the created suggestion.
FailedCreateEndsInEditMode ==
    \A p \in DOMAIN link.done :
        LET d == link.done[p]
        IN  /\ (d.mounted /\ d.outcome # "value") =>
                   /\ link.changes = <<>>
                   /\ ~link.isResolvingLink
                   /\ d.outcome \in {"rejected", "rejected with msg"} => link.errorMessage # <<>>
                   /\ link.isEditingLink
                   /\ ShowsSearchInput(link)
            /\ (d.mounted /\ d.outcome = "value") => link.changes = <<Created(d.title)>>

\* C18: view exclusivity. A mounted control renders exactly one of its three
\* views: the spinner when isResolvingLink is true; otherwise the search
\* input when isEditingLink is true or there is no value; otherwise the
\* current link.
ViewExclusivity ==
    link.mounted =>
        /\ Cardinality({ v \in {"spinner", "search input", "current link"} :
               \/ v = "spinner" /\ ShowsSpinner(link)
               \/ v = "search input" /\ ShowsSearchInput(link)
               \/ v = "current link" /\ ShowsCurrentLink(link) }) = 1
        /\ ShowsSpinner(link) <=> link.isResolvingLink
        /\ ~link.isResolvingLink =>
               (ShowsSearchInput(link) <=> (link.isEditingLink \/ link.value = <<>>))
        /\ ~(ShowsSearchInput(link) /\ ShowsCurrentLink(link))
        /\ link.isResolvingLink => (~ShowsSearchInput(link) /\ ~ShowsCurrentLink(link))

\* A create is resolving on a control that has a value and is in edit mode:
\* the spinner alone is rendered.
ViewExclusivityWitness ==
    /\ link.mounted
    /\ link.isResolvingLink
    /\ link.isEditingLink
    /\ link.value # <<>>
    /\ link.pending # <<>>

====
